---------------------------- MODULE Spec2Model ----------------------------
(* Task manager backend: the /api/tasks router (routes/tasks.js), its      *)
(* express-validator chains and the mongoose Task collection it talks to.  *)
(* Spec runs every handler as one step (one request at a time); RaceSpec   *)
(* splits patch and delete at the await between getTask's findById and the *)
(* handler's save/deleteOne, so that requests interleave. In both, a       *)
(* response stays in `response` until it has left (Deliver).               *)
EXTENDS Integers, Sequences, FiniteSets, Bags, TLC

\* ------------------------------------------------------------------ bounds
\* number of Tasks ever created in one behaviour of Spec
MaxTasks == 2
\* number of Tasks ever created in one behaviour of RaceSpec
MaxRaceTasks == 1
\* number of patch/delete requests that may sit between lookup and save
MaxInflight == 2

\* ------------------------------------------------------- program constants
TitleMax == 255
DescriptionMax == 1000

MsgTitleRequired == "El título es obligatorio"
MsgTitleTooLong == "El título no puede tener más de 255 caracteres"
MsgDescriptionTooLong == "La descripción no puede tener más de 1000 caracteres"
MsgCompletedBoolean == "El estado debe ser un booleano"
MsgInvalidId == "ID de tarea no válido"
MsgNotFound == "Tarea no encontrada"
MsgFindError == "Error al buscar la tarea"
MsgListError == "Error al obtener las tareas"
MsgCreateError == "Error al crear la tarea"
MsgUpdateError == "Error al actualizar la tarea"
MsgDeleteError == "Error al eliminar la tarea"
MsgDeleted == "Tarea eliminada"

\* -------------------------------------------------------------- JSON values
\* A value of a parsed JSON body or query string (express.json()).
Undefined == [t |-> "undefined"]
Null == [t |-> "null"]
Str(s) == [t |-> "string", s |-> s]
Bool(b) == [t |-> "boolean", b |-> b]

\* 'a'.repeat(n)
RECURSIVE repeat(_, _)
repeat(c, n) ==
    IF n = 0 THEN ""
    ELSE IF n = 1 THEN c
    ELSE repeat(c, n \div 2) \o repeat(c, n - (n \div 2))

\* -------------------------------------------------------- express-validator
\* The string a validator sees: null and undefined become "".
toString(v) ==
    CASE v.t = "string" -> v.s
      [] v.t = "boolean" -> (IF v.b THEN "true" ELSE "false")
      [] OTHER -> ""

notEmpty(v) == Len(toString(v)) # 0

isLengthOffByOne(v, max) == Len(toString(v)) <= max + 1
isLength(v, max) == Len(toString(v)) <= max

isBoolean(v) == toString(v) \in {"true", "false", "1", "0"}

\* .optional(): the chain is skipped when the field is undefined.
optional(v) == v.t = "undefined"

\* .optional({ nullable: true, checkFalsy: true }): skipped when falsy.
optionalFalsy(v) ==
    \/ v.t \in {"undefined", "null"}
    \/ v = Str("")
    \/ v = Bool(FALSE)

Violation(path, msg) == [path |-> path, msg |-> msg]
Check(ok, path, msg) == IF ok THEN <<>> ELSE <<Violation(path, msg)>>

\* The chains of router.post('/'), in declaration order.
createRules(body) ==
    Check(notEmpty(body.title), "title", MsgTitleRequired)
    \o Check(isLength(body.title, TitleMax), "title", MsgTitleTooLong)
    \o (IF optionalFalsy(body.description) THEN <<>>
        ELSE Check(isLength(body.description, DescriptionMax),
                   "description", MsgDescriptionTooLong))

\* The chains of router.patch('/:id'), in declaration order.
patchRulesNoTitleLength(body) ==
    (IF optional(body.description) THEN <<>>
     ELSE Check(isLength(body.description, DescriptionMax),
                "description", MsgDescriptionTooLong))
    \o (IF optional(body.completed) THEN <<>>
        ELSE Check(isBoolean(body.completed), "completed", MsgCompletedBoolean))
patchRules(body) ==
    (IF optional(body.title) THEN <<>>
     ELSE Check(isLength(body.title, TitleMax), "title", MsgTitleTooLong))
    \o (IF optional(body.description) THEN <<>>
        ELSE Check(isLength(body.description, DescriptionMax),
                   "description", MsgDescriptionTooLong))
    \o (IF optional(body.completed) THEN <<>>
        ELSE Check(isBoolean(body.completed), "completed", MsgCompletedBoolean))

\* ----------------------------------------------------------------- ObjectId
HexDigits == <<"0", "1", "2", "3", "4", "5", "6", "7", "8", "9",
               "a", "b", "c", "d", "e", "f">>
HexChars == {HexDigits[i] : i \in 1..16} \cup {"A", "B", "C", "D", "E", "F"}

\* bson's ObjectId constructor accepts a string of 12 characters or of 24
\* hexadecimal characters, and throws on any other string.
canCastObjectId(id) ==
    \/ Len(id) = 12
    \/ Len(id) = 24 /\ \A i \in 1..24 : id[i] \in HexChars

\* mongoose.isValidObjectId on a path parameter (a string).
isValidObjectId(id) == canCastObjectId(id)

toLowerCase(c) ==
    CASE c = "A" -> "a" [] c = "B" -> "b" [] c = "C" -> "c"
      [] c = "D" -> "d" [] c = "E" -> "e" [] c = "F" -> "f"
      [] OTHER -> c

\* Character codes of the characters path parameters are drawn from.
charCode(c) ==
    CASE c = "g" -> 103 [] c = "h" -> 104 [] c = "i" -> 105 [] c = "j" -> 106
      [] c = "k" -> 107 [] c = "l" -> 108 [] c = "a" -> 97 [] c = "b" -> 98
      [] c = "c" -> 99 [] c = "d" -> 100 [] c = "e" -> 101 [] c = "f" -> 102
      [] c = "_" -> 95 [] c = "z" -> 122 [] c = "0" -> 48 [] c = "1" -> 49
      [] c = "2" -> 50 [] c = "3" -> 51 [] OTHER -> 63

\* The ObjectId a valid path parameter casts to, as its 24 lower-case hex
\* digits: a 24-character parameter is read as hex, a 12-character one as
\* 12 bytes.
castObjectId(id) ==
    IF Len(id) = 24
    THEN [i \in 1..24 |-> toLowerCase(id[i])]
    ELSE [i \in 1..24 |->
            LET code == charCode(id[(i + 1) \div 2])
            IN  IF i % 2 = 1 THEN HexDigits[(code \div 16) + 1]
                ELSE HexDigits[(code % 16) + 1]]

\* The n-th identifier the store generates.
ObjectIdOf(n) == [i \in 1..24 |-> IF i = 1 THEN "a"
                                  ELSE IF i = 24 THEN HexDigits[n + 1]
                                  ELSE "0"]


\* ------------------------------------------------------------ Task documents
\* models/Task.js: title is required; completed defaults to false and
\* createdAt to the time of creation.
SchemaRequired == {"title"}
SchemaDefaultCompleted == Bool(FALSE)

Paths == {"title", "description", "completed"}

\* Mongoose's casts to the schema types String and Boolean.
castString(v) == IF v.t = "boolean" THEN Str(toString(v)) ELSE v
castBoolean(v) ==
    IF v.t = "string"
    THEN (IF v.s \in {"true", "1", "yes"} THEN Bool(TRUE) ELSE Bool(FALSE))
    ELSE v
cast(path, v) == IF path = "completed" THEN castBoolean(v) ELSE castString(v)

\* The required validator: fails on undefined, null and the empty string.
checkRequired(v) == v.t = "string" /\ Len(v.s) > 0

\* A document in memory: its values and the paths marked modified.
hydrate(d) == [doc |-> d, modified |-> {}]

\* doc[path] = v marks the path modified only when the cast value differs
\* from the one the document holds.
shouldModifyAlways(m, path, v) == TRUE
shouldModify(m, path, v) == cast(path, v) # m.doc[path]

\* new Task({ title, description }) for the n-th document.
newTaskNoDescription(title, description, n) ==
    [_id |-> ObjectIdOf(n),
     title |-> castString(title),
     description |-> Undefined,
     completed |-> SchemaDefaultCompleted,
     createdAt |-> n]
newTask(title, description, n) ==
    [_id |-> ObjectIdOf(n),
     title |-> castString(title),
     description |-> castString(description),
     completed |-> SchemaDefaultCompleted,
     createdAt |-> n]

Threw == [ok |-> FALSE]

\* Task.find(filter)
find(store, filter, fail) ==
    IF fail THEN Threw
    ELSE [ok |-> TRUE,
          docs |-> IF filter = Undefined THEN store
                   ELSE {d \in store : d.completed = filter}]

\* Task.findById(id)
findById(store, id, fail) ==
    IF fail \/ ~canCastObjectId(id) THEN Threw
    ELSE [ok |-> TRUE, docs |-> {d \in store : d._id = castObjectId(id)}]

\* save() of a new document: validate, then insertOne.
insert(store, d, fail) ==
    IF fail \/ \E p \in SchemaRequired : ~checkRequired(d[p]) THEN Threw
    ELSE [ok |-> TRUE, store |-> store \cup {d}]

\* save() of a loaded document: validate the modified paths, then
\* updateOne({ _id }, { $set: <modified paths> }); with nothing modified
\* only the document's existence is checked. A document that is gone
\* makes save() throw DocumentNotFoundError.
updateOne(store, m) ==
    {IF d._id = m.doc._id
     THEN [p \in DOMAIN d |-> IF p \in m.modified THEN m.doc[p] ELSE d[p]]
     ELSE d : d \in store}
saveUpserts(store, m, fail) ==
    IF \/ fail
       \/ \E p \in SchemaRequired \cap m.modified : ~checkRequired(m.doc[p])
    THEN Threw
    ELSE [ok |-> TRUE,
          store |-> IF \E d \in store : d._id = m.doc._id
                    THEN updateOne(store, m) ELSE store \cup {m.doc}]
save(store, m, fail) ==
    IF \/ fail
       \/ \E p \in SchemaRequired \cap m.modified : ~checkRequired(m.doc[p])
       \/ ~\E d \in store : d._id = m.doc._id
    THEN Threw
    ELSE [ok |-> TRUE, store |-> updateOne(store, m)]

\* Task.deleteOne({ _id })
deleteOneNothing(store, id, fail) ==
    IF fail THEN Threw ELSE [ok |-> TRUE, store |-> store]
deleteOne(store, id, fail) ==
    IF fail THEN Threw
    ELSE [ok |-> TRUE, store |-> {d \in store : d._id # id}]

\* ------------------------------------------------------------------ handlers
\* A handler's outcome: the response (status, message or errors or data),
\* the store it leaves, and the number of store operations it issued.
Outcome(status, message, errors, data, store, queries) ==
    [status |-> status, message |-> message, errors |-> errors,
     data |-> data, store |-> store, queries |-> queries]

\* router.get('/')
listFilterIgnored(query) == Undefined
listFilter(query) ==
    IF query # Undefined THEN Bool(query = Str("true")) ELSE Undefined

listHandler(store, query, fail) ==
    LET r == find(store, listFilter(query), fail)
    IN  IF r.ok THEN Outcome(200, "", <<>>, r.docs, store, 1)
        ELSE Outcome(500, MsgListError, <<>>, {}, store, 1)

\* router.post('/')
createHandlerSavesFirst(store, body, n, fail) ==
    LET task == newTask(body.title, body.description, n)
        r == insert(store, task, fail)
    IN  IF ~r.ok THEN Outcome(500, MsgCreateError, <<>>, {}, store, 1)
        ELSE IF createRules(body) # <<>>
             THEN Outcome(400, "", createRules(body), {}, r.store, 1)
             ELSE Outcome(201, "", <<>>, {task}, r.store, 1)
createHandler(store, body, n, fail) ==
    IF createRules(body) # <<>>
    THEN Outcome(400, "", createRules(body), {}, store, 0)
    ELSE LET task == newTask(body.title, body.description, n)
             r == insert(store, task, fail)
         IN  IF r.ok THEN Outcome(201, "", <<>>, {task}, r.store, 1)
             ELSE Outcome(500, MsgCreateError, <<>>, {}, store, 1)

\* getTask: the outcome when it answers itself, or status 0 with the
\* loaded document in data when it calls next().
getTaskNoGuard(store, id, fail) ==
    LET r == findById(store, id, fail)
    IN  IF ~r.ok THEN Outcome(500, MsgFindError, <<>>, {}, store, 1)
        ELSE IF r.docs = {} THEN Outcome(404, MsgNotFound, <<>>, {}, store, 1)
        ELSE Outcome(0, "", <<>>, r.docs, store, 1)
getTaskNoNullCheck(store, id, fail) ==
    IF ~isValidObjectId(id)
    THEN Outcome(400, MsgInvalidId, <<>>, {}, store, 0)
    ELSE LET r == findById(store, id, fail)
         IN  IF ~r.ok THEN Outcome(500, MsgFindError, <<>>, {}, store, 1)
             ELSE IF r.docs = {}
                  THEN Outcome(200, "", <<>>, {}, store, 1)
                  ELSE Outcome(0, "", <<>>, r.docs, store, 1)
getTask(store, id, fail) ==
    IF ~isValidObjectId(id)
    THEN Outcome(400, MsgInvalidId, <<>>, {}, store, 0)
    ELSE LET r == findById(store, id, fail)
         IN  IF ~r.ok THEN Outcome(500, MsgFindError, <<>>, {}, store, 1)
             ELSE IF r.docs = {}
                  THEN Outcome(404, MsgNotFound, <<>>, {}, store, 1)
                  ELSE Outcome(0, "", <<>>, r.docs, store, 1)

\* router.get('/:id') after getTask
fetchHandler(store, task) == Outcome(200, "", <<>>, {task.doc}, store, 0)

\* req.body.<path> != null
present(v) == v.t \notin {"undefined", "null"}

\* The three assignments of router.patch('/:id'): the paths they write, and
\* the document after them.
assigned(body) == {p \in Paths : present(body[p])}

assignClearsOmitted(m, body) ==
    LET changed == {p \in Paths : shouldModify(m, p, body[p])}
    IN  [doc |-> [p \in DOMAIN m.doc |->
                    IF p \in changed THEN cast(p, body[p]) ELSE m.doc[p]],
         modified |-> m.modified \cup changed]
assign(m, body) ==
    LET changed == {p \in assigned(body) : shouldModify(m, p, body[p])}
    IN  [doc |-> [p \in DOMAIN m.doc |->
                    IF p \in changed THEN cast(p, body[p]) ELSE m.doc[p]],
         modified |-> m.modified \cup changed]

\* router.patch('/:id') after getTask
patchHandler(store, task, body, fail) ==
    IF patchRules(body) # <<>>
    THEN Outcome(400, "", patchRules(body), {}, store, 0)
    ELSE LET m == assign(task, body)
             r == save(store, m, fail)
         IN  IF r.ok THEN Outcome(200, "", <<>>, {m.doc}, r.store, 1)
             ELSE Outcome(500, MsgUpdateError, <<>>, {}, store, 1)

\* router.delete('/:id') after getTask
deleteHandler(store, task, fail) ==
    LET r == deleteOne(store, task.doc._id, fail)
    IN  IF r.ok THEN Outcome(200, MsgDeleted, <<>>, {}, r.store, 1)
        ELSE Outcome(500, MsgDeleteError, <<>>, {}, store, 1)

\* -------------------------------------------------------------------- state
VARIABLES
    tasks,      \* the Task collection: a set of documents
    seq,        \* how many documents the store has created
    inflight,   \* the bag of requests past getTask whose handler has not run
    response,   \* the response on its way to the client, with its request
    submitted,  \* title/description of each created Task not written since
    deleted     \* the ids a delete request has answered 200 for

vars == <<tasks, seq, inflight, response, submitted, deleted>>

Body(title, description, completed) ==
    [title |-> title, description |-> description, completed |-> completed]
NoBody == Body(Undefined, Undefined, Undefined)
NoId == <<>>

Answer(op, id, query, body, faults, o) ==
    [op |-> op, id |-> id, query |-> query, body |-> body, faults |-> faults,
     status |-> o.status, message |-> o.message, errors |-> o.errors,
     data |-> o.data, queries |-> o.queries]

NoResponse ==
    Answer("none", NoId, Undefined, NoBody, {}, Outcome(0, "", <<>>, {}, {}, 0))

\* One request is handled at a time: the next one is taken up when the
\* response to the previous one has left.
Ready == response = NoResponse

Init ==
    /\ tasks = {}
    /\ seq = 0
    /\ inflight = EmptyBag
    /\ response = NoResponse
    /\ submitted = {}
    /\ deleted = {}

\* ------------------------------------------------------------------- inputs
T255 == repeat("a", TitleMax)
T256 == repeat("a", TitleMax + 1)
D1000 == repeat("d", DescriptionMax)
D1001 == repeat("d", DescriptionMax + 1)

Queries == {Undefined, Str("true"), Str("false"), Str("maybe")}

CreateBodies ==
    {Body(t, d, Undefined) :
        t \in {Undefined, Null, Str(""), Str("b"), Str(T255), Str(T256)},
        d \in {Undefined}}
    \cup {Body(Str("b"), d, Undefined) :
            d \in {Str(D1000), Str(D1001)}}
    \cup {Body(Undefined, Str(D1000), Undefined),
          Body(Str(""), Str(""), Undefined),
          Body(Str(T256), Null, Undefined),
          Body(Str(T256), Str(D1001), Undefined),
          Body(Str(T255), Str(D1000), Bool(TRUE))}

PatchBodies ==
    {Body(t, Undefined, Undefined) :
        t \in {Undefined, Null, Str(""), Str("b"), Str(T255), Str(T256)}}
    \cup {Body(Undefined, d, Undefined) :
            d \in {Str(D1000), Str(D1001)}}
    \cup {Body(Undefined, Undefined, c) :
            c \in {Bool(TRUE), Bool(FALSE), Str("true"), Str("yes")}}
    \cup {Body(Str("b"), Undefined, Bool(TRUE)),
          Body(Str("b"), Undefined, Bool(FALSE)),
          Body(Str("b"), Str(D1000), Undefined),
          Body(Str(""), Undefined, Bool(TRUE)),
          Body(Str(T256), Str(D1001), Str("yes")),
          Body(Null, Null, Null)}

toChars12 == <<"a", "b", "c", "d", "e", "f", "g", "h", "i", "j", "k", "l">>
idInvalido == <<"i", "d", "_", "i", "n", "v", "a", "l", "i", "d", "o">>
notHex24 == [i \in 1..24 |-> "z"]
unknownId == [i \in 1..24 |-> "f"]
upperCase(id) == [i \in 1..Len(id) |-> IF id[i] = "a" THEN "A" ELSE id[i]]

MalformedIds == {idInvalido, notHex24}
WriteIds == {ObjectIdOf(n) : n \in 1..MaxTasks} \cup {unknownId, idInvalido}
IdParams == WriteIds \cup {upperCase(ObjectIdOf(1)), toChars12, notHex24}

\* ------------------------------------------------------------------ requests
Forget(id) == {s \in submitted : s._id # id}
Remember(d, body) ==
    submitted \cup {[_id |-> d._id, title |-> body.title,
                     description |-> body.description]}

\* The store operation `name` threw: it was made to fail and the outcome o
\* shows that it was issued.
Faults(fail, o, name) == IF fail /\ o.queries > 0 THEN {name} ELSE {}

\* GET /
List(query, fail) ==
    /\ Ready
    /\ \E o \in {listHandler(tasks, query, fail)} :
        /\ response' = Answer("list", NoId, query, NoBody,
                              Faults(fail, o, "find"), o)
        /\ tasks' = o.store
        /\ UNCHANGED <<seq, inflight, submitted, deleted>>

\* POST /
Create(body, fail) ==
    /\ Ready
    /\ seq < MaxTasks
    /\ \E o \in {createHandler(tasks, body, seq + 1, fail)} :
           /\ response' = Answer("create", NoId, Undefined, body,
                                 Faults(fail, o, "save"), o)
           /\ tasks' = o.store
           /\ seq' = IF o.status = 201 THEN seq + 1 ELSE seq
           /\ submitted' = IF o.status = 201
                           THEN Remember(CHOOSE d \in o.data : TRUE, body)
                           ELSE submitted
           /\ UNCHANGED <<inflight, deleted>>

\* getTask answered the request itself.
Rejected(op, id, body, faults, g) ==
    /\ g.status # 0
    /\ response' = Answer(op, id, Undefined, body, faults, g)
    /\ tasks' = g.store
    /\ UNCHANGED <<seq, inflight, submitted, deleted>>

\* The handler after getTask answered with outcome h, having loaded task.
Handled(op, id, body, faults, g, task, h) ==
    /\ response' = Answer(op, id, Undefined, body, faults,
                          [h EXCEPT !.queries = g.queries + h.queries])
    /\ tasks' = h.store
    /\ submitted' = IF h.store # tasks /\ op \in {"patch", "delete"}
                    THEN Forget(task.doc._id) ELSE submitted
    /\ deleted' = IF op = "delete" /\ h.status = 200
                  THEN deleted \cup {task.doc._id} ELSE deleted
    /\ UNCHANGED <<seq, inflight>>

\* GET /:id
Fetch(id, fail) ==
    /\ Ready
    /\ \E g \in {getTask(tasks, id, fail)} :
        \/ Rejected("fetch", id, NoBody, Faults(fail, g, "findById"), g)
        \/ /\ g.status = 0
           /\ \E task \in {hydrate(d) : d \in g.data} :
                Handled("fetch", id, NoBody, {}, g, task,
                        fetchHandler(tasks, task))

\* getTask awaits findById and the handlers await save and deleteOne: a patch
\* or a delete is two steps, and other requests' steps may fall in between.
\* The body is read by the validators and the handler only, after getTask;
\* a request answered by getTask echoes a body of LookupBodies, one that
\* goes on draws its body where it is first read.
LookupBodies ==
    {Body(Str("b"), Undefined, Undefined),
     Body(Str(T256), Str(D1001), Str("yes"))}

\* res.task = task; next()
Park(op, id, g) ==
    /\ g.status = 0
    /\ BagCardinality(inflight) < MaxInflight
    /\ \E d \in g.data :
          inflight' = inflight (+) SetToBag({[op |-> op, id |-> id,
                                              task |-> hydrate(d)]})
    /\ UNCHANGED <<tasks, seq, response, submitted, deleted>>

\* The handler of the parked request r answered with outcome h.
Finish(r, body, faults, h) ==
    /\ response' = Answer(r.op, r.id, Undefined, body, faults,
                          [h EXCEPT !.queries = 1 + h.queries])
    /\ tasks' = h.store
    /\ inflight' = inflight (-) SetToBag({r})
    /\ submitted' = IF h.store # tasks
                    THEN Forget(r.task.doc._id) ELSE submitted
    /\ deleted' = IF r.op = "delete" /\ h.status = 200
                  THEN deleted \cup {r.task.doc._id} ELSE deleted
    /\ UNCHANGED seq

Parked(op) == {r \in BagToSet(inflight) : r.op = op}

\* PATCH /:id up to the end of getTask
PatchLookup(id, body, fail) ==
    /\ Ready
    /\ \E g \in {getTask(tasks, id, fail)} :
        \/ Rejected("patch", id, body, Faults(fail, g, "findById"), g)
        \/ Park("patch", id, g)

\* PATCH /:id from the validators on
PatchSave(r, body, fail) ==
    /\ Ready
    /\ r \in Parked("patch")
    /\ \E h \in {patchHandler(tasks, r.task, body, fail)} :
          Finish(r, body, Faults(fail, h, "save"), h)

\* DELETE /:id up to the end of getTask
DeleteLookup(id, fail) ==
    /\ Ready
    /\ \E g \in {getTask(tasks, id, fail)} :
        \/ Rejected("delete", id, NoBody, Faults(fail, g, "findById"), g)
        \/ Park("delete", id, g)

\* DELETE /:id from deleteOne on
DeleteRemove(r, fail) ==
    /\ Ready
    /\ r \in Parked("delete")
    /\ \E h \in {deleteHandler(tasks, r.task, fail)} :
          Finish(r, NoBody, Faults(fail, h, "deleteOne"), h)

\* res.json(...): the response leaves.
Deliver ==
    /\ ~Ready
    /\ response' = NoResponse
    /\ UNCHANGED <<tasks, seq, inflight, submitted, deleted>>

Next ==
    \/ Deliver
    \/ \E q \in Queries, fail \in BOOLEAN : List(q, fail)
    \/ \E body \in CreateBodies, fail \in BOOLEAN : Create(body, fail)
    \/ \E id \in IdParams, fail \in BOOLEAN : Fetch(id, fail)
    \/ \E id \in WriteIds, body \in LookupBodies, fail \in BOOLEAN :
          PatchLookup(id, body, fail)
    \/ \E r \in BagToSet(inflight), body \in PatchBodies,
          fail \in BOOLEAN : PatchSave(r, body, fail)
    \/ \E id \in WriteIds, fail \in BOOLEAN : DeleteLookup(id, fail)
    \/ \E r \in BagToSet(inflight), fail \in BOOLEAN : DeleteRemove(r, fail)

Spec == Init /\ [][Next]_vars

\* ------------------------------------------- interleavings on small inputs
RaceCreateBodies ==
    {Body(Str("a"), Undefined, Undefined), Body(Str("b"), Undefined, Bool(TRUE))}

RacePatchBodies ==
    {Body(Str("a"), Undefined, Undefined),
     Body(Str("b"), Undefined, Undefined),
     Body(Undefined, Undefined, Bool(TRUE)),
     Body(Str("b"), Undefined, Bool(FALSE)),
     Body(Str(""), Undefined, Bool(TRUE)),
     Body(Undefined, Undefined, Str("yes"))}

\* POST / in RaceSpec
RaceCreate(body) ==
    /\ seq < MaxRaceTasks
    /\ Create(body, FALSE)

RaceNext ==
    \/ Deliver
    \/ \E body \in RaceCreateBodies : RaceCreate(body)
    \/ \E id \in WriteIds : Fetch(id, FALSE)
    \/ \E id \in WriteIds, body \in RacePatchBodies, fail \in BOOLEAN :
          PatchLookup(id, body, fail)
    \/ \E r \in BagToSet(inflight), body \in RacePatchBodies,
          fail \in BOOLEAN : PatchSave(r, body, fail)
    \/ \E id \in WriteIds, fail \in BOOLEAN : DeleteLookup(id, fail)
    \/ \E r \in BagToSet(inflight), fail \in BOOLEAN : DeleteRemove(r, fail)

RaceSpec == Init /\ [][RaceNext]_vars

\* ------------------------------------------------------------------- claims
IsString(v) == v.t = "string"
Stored(id) == {d \in tasks : d._id = id}

\* C1: every persisted Task has a non-empty title of at most 255 characters
\* and, when it has a description, one of at most 1000 characters.
C1_PersistedTasksWellFormed ==
    \A d \in tasks :
        /\ IsString(d.title)
        /\ Len(d.title.s) >= 1
        /\ Len(d.title.s) <= TitleMax
        /\ IsString(d.description) => Len(d.description.s) <= DescriptionMax

\* A patch that tried to empty the title of a Task at both maxima was
\* answered, and the Task is still stored.
C1_Witness ==
    /\ response.op = "patch"
    /\ response.body.title = Str("")
    /\ response.status = 500
    /\ \E d \in tasks : d.title = Str(T255) /\ d.description = Str(D1000)

\* C2: create answers 400 with an errors list and persists nothing when the
\* title is absent, empty or longer than 255 characters, the first violation
\* being the required-title message for an absent or empty title and the
\* max-length message for a longer one; with a title of 1 to 255 characters
\* and a description of at most 1000 characters or none, and a store that
\* does not fail, it answers 201 and persists exactly one new Task.
C2_TitleMissing(body) == body.title \in {Undefined, Str("")}
C2_TitleTooLong(body) ==
    IsString(body.title) /\ Len(body.title.s) > TitleMax
C2_Acceptable(body) ==
    /\ IsString(body.title)
    /\ Len(body.title.s) \in 1..TitleMax
    /\ \/ body.description = Undefined
       \/ IsString(body.description)
          /\ Len(body.description.s) <= DescriptionMax

C2_CreateStep ==
    response'.op = "create" =>
        LET body == response'.body
        IN  /\ C2_TitleMissing(body) \/ C2_TitleTooLong(body) =>
                /\ response'.status = 400
                /\ Len(response'.errors) >= 1
                /\ response'.errors[1].msg =
                      (IF C2_TitleMissing(body) THEN MsgTitleRequired
                       ELSE MsgTitleTooLong)
                /\ tasks' = tasks
            /\ C2_Acceptable(body) /\ response'.faults = {} =>
                /\ response'.status = 201
                /\ tasks \subseteq tasks'
                /\ Cardinality(tasks') = Cardinality(tasks) + 1
                /\ tasks' \ tasks = response'.data

C2_CreateValidation == [][C2_CreateStep]_vars

\* A 255-character title with a 1000-character description was created as
\* the second Task.
C2_Witness ==
    /\ response.op = "create"
    /\ response.status = 201
    /\ response.body.title = Str(T255)
    /\ response.body.description = Str(D1000)
    /\ Cardinality(tasks) = 2

\* C3: when the store does not fail, list answers 200 with exactly the Tasks
\* whose completed equals the filter for completed=true and completed=false,
\* and with all Tasks when the parameter is omitted (the empty array when
\* there is none).
C3_ListFilter ==
    response.op = "list" /\ response.faults = {}
    /\ response.query \in {Undefined, Str("true"), Str("false")} =>
        /\ response.status = 200
        /\ response.data =
              (IF response.query = Undefined THEN tasks
               ELSE {d \in tasks :
                        d.completed = Bool(response.query = Str("true"))})

\* completed=true returned one of two Tasks.
C3_Witness ==
    /\ response.op = "list"
    /\ response.query = Str("true")
    /\ response.status = 200
    /\ Cardinality(response.data) = 1
    /\ Cardinality(tasks) = 2

\* C4: the save of a patch answered 200 changes, in the patched Task, only
\* paths the body includes, and a path it changes holds the body's value; the
\* omitted paths, _id and createdAt keep the values stored before the save,
\* and every other Task is unchanged.
C4_PatchStep ==
    response'.op = "patch" /\ response'.status = 200 =>
        \E d \in tasks, e \in tasks' :
            /\ d._id = castObjectId(response'.id)
            /\ e._id = d._id
            /\ e.createdAt = d.createdAt
            /\ tasks' \ {e} = tasks \ {d}
            /\ \A p \in Paths :
                /\ response'.body[p] = Undefined => e[p] = d[p]
                /\ e[p] # d[p] =>
                       present(response'.body[p])
                       /\ e[p] = cast(p, response'.body[p])

C4_PatchFrame == [][C4_PatchStep]_vars

\* A patch of title and completed left the description of the patched Task
\* and the other Task as they were.
C4_Witness ==
    /\ response.op = "patch"
    /\ response.status = 200
    /\ response.body = Body(Str("b"), Undefined, Bool(TRUE))
    /\ \E d \in tasks :
          /\ d._id = castObjectId(response.id)
          /\ d.title = Str("b")
          /\ d.description = Str(D1000)
          /\ d.completed = Bool(TRUE)
    /\ Cardinality(tasks) = 2

\* C5: fetch, patch and delete with a malformed identifier answer 400 with
\* 'ID de tarea no válido' whatever the body, issue no store operation and
\* leave the store unchanged.
C5_MalformedStep ==
    response'.op \in {"fetch", "patch", "delete"}
    /\ response'.id \in MalformedIds =>
        /\ response'.status = 400
        /\ response'.message = MsgInvalidId
        /\ response'.queries = 0
        /\ tasks' = tasks

C5_MalformedId == [][C5_MalformedStep]_vars

\* A patch of 'id_invalido' with an invalid body was answered while a Task
\* is stored.
C5_Witness ==
    /\ response.op = "patch"
    /\ response.id = idInvalido
    /\ response.body = Body(Str(T256), Str(D1001), Str("yes"))
    /\ response.status = 400
    /\ response.message = MsgInvalidId
    /\ tasks # {}

\* C6: fetch, patch and delete with a well-formed identifier that matches
\* no persisted Task when getTask looks it up answer 404 with 'Tarea no
\* encontrada' when the lookup itself does not fail, for every patch body,
\* and leave the store unchanged.
C6_Unknown(id) ==
    /\ id \in IdParams \ MalformedIds
    /\ Stored(castObjectId(id)) = {}

C6_UnknownStep ==
    response'.op \in {"fetch", "patch", "delete"}
    /\ inflight' = inflight
    /\ C6_Unknown(response'.id)
    /\ "findById" \notin response'.faults =>
        /\ response'.status = 404
        /\ response'.message = MsgNotFound
        /\ tasks' = tasks

C6_UnknownId == [][C6_UnknownStep]_vars

\* A patch with an invalid body of the id of a deleted Task was answered 404.
C6_Witness ==
    /\ response.op = "patch"
    /\ response.id = ObjectIdOf(1)
    /\ response.body = Body(Str(T256), Str(D1001), Str("yes"))
    /\ response.status = 404
    /\ ObjectIdOf(1) \in deleted
    /\ tasks # {}

\* C7: a fetch, not failed by the store, of the id of a Task that a create
\* answered 201 for and that no patch or delete has written since answers
\* 200 with the submitted title and description, completed=false and a
\* creation timestamp.
C7_FetchCreated ==
    response.op = "fetch" /\ response.faults = {}
    /\ response.id \notin MalformedIds =>
        \A s \in submitted :
            s._id = castObjectId(response.id) =>
                /\ response.status = 200
                /\ \E d \in response.data :
                    /\ response.data = {d}
                    /\ d._id = s._id
                    /\ d.title = s.title
                    /\ d.description = s.description
                    /\ d.completed = Bool(FALSE)
                    /\ d.createdAt \in 1..seq

\* The first Task, created with both maxima, was fetched by the upper-case
\* spelling of its id after a second Task was created.
C7_Witness ==
    /\ response.op = "fetch"
    /\ response.status = 200
    /\ response.id = upperCase(ObjectIdOf(1))
    /\ \E s \in submitted :
          /\ s._id = ObjectIdOf(1)
          /\ s.title = Str(T255)
          /\ s.description = Str(D1000)
    /\ Cardinality(tasks) = 2

\* C8: a delete that found the Task at its lookup and whose deleteOne does
\* not fail answers 200 with 'Tarea eliminada' and no record, and removes
\* exactly the record it looked up; from then on a fetch of that id, not
\* failed by the store, answers 404, and a fetch of a stored Task answers
\* 200 with that Task.
C8_DeleteStep ==
    /\ \A r \in Parked("delete") :
          inflight' = inflight (-) SetToBag({r}) /\ response'.faults = {} =>
              /\ response'.op = "delete"
              /\ response'.status = 200
              /\ response'.message = MsgDeleted
              /\ response'.data = {}
              /\ tasks' = tasks \ Stored(r.task.doc._id)
              /\ ~\E d \in tasks' : d._id = r.task.doc._id
              /\ r.task.doc._id \in deleted'
    /\ response'.op = "fetch" /\ response'.faults = {}
       /\ response'.id \notin MalformedIds =>
        /\ castObjectId(response'.id) \in deleted => response'.status = 404
        /\ Stored(castObjectId(response'.id)) # {} =>
              /\ response'.status = 200
              /\ response'.data = Stored(castObjectId(response'.id))

C8_DeleteRemoves == [][C8_DeleteStep]_vars

\* A fetch of a deleted id was answered 404 while the other Task is stored.
C8_Witness ==
    /\ response.op = "fetch"
    /\ response.status = 404
    /\ castObjectId(response.id) \in deleted
    /\ tasks # {}

\* C9: a request answered 400, 404 or 500 leaves the store as it was; a
\* failing find answers 500 'Error al obtener las tareas', a failing save of
\* an acceptable create answers 500 'Error al crear la tarea', and every
\* request made to fail at a store operation is still answered.
C9_ErrorStep ==
    /\ response'.status \in {400, 404, 500} => tasks' = tasks /\ seq' = seq
    /\ response'.op = "list" /\ response'.faults # {} =>
        response'.status = 500 /\ response'.message = MsgListError
    /\ response'.op = "create" /\ response'.faults # {}
       /\ C2_Acceptable(response'.body) =>
        response'.status = 500 /\ response'.message = MsgCreateError
    /\ response'.faults # {} => response'.status \in {400, 404, 500}

C9_NoPartialEffect == [][C9_ErrorStep]_vars

\* A patch of title and completed failed on the title and the Task kept
\* completed=false.
C9_Witness ==
    /\ response.op = "patch"
    /\ response.status = 500
    /\ response.body = Body(Str(""), Undefined, Bool(TRUE))
    /\ response.faults = {}
    /\ \E d \in tasks :
          d._id = castObjectId(response.id) /\ d.completed = Bool(FALSE)

\* C10 concerns the save of a patch P that another patch of the same Task
\* overtook: between P's lookup and P's save the other patch saved, so the
\* stored value of a path differs from the one P loaded. P's body is one the
\* validators and the schema accept, the Task is still stored and the store
\* does not fail.
C10_Overtaken(r, d) ==
    /\ r.op = "patch"
    /\ response'.op = "patch"
    /\ inflight' = inflight (-) SetToBag({r})
    /\ d._id = r.task.doc._id
    /\ \E p \in Paths : d[p] # r.task.doc[p]
    /\ patchRules(response'.body) = <<>>
    /\ response'.body.title # Str("")
    /\ response'.faults = {}

C10_WrittenByBoth(r, d, p) ==
    /\ p \in assigned(response'.body)
    /\ d[p] # r.task.doc[p]

\* C10 as claimed: the overtaken patch answers 200 and, for each path
\* written by both patches, the stored value after it is its own value.
C10_LastWriteWinsStep ==
    \A r \in BagToSet(inflight) : \A d \in tasks :
        C10_Overtaken(r, d) =>
            /\ response'.status = 200
            /\ \E e \in tasks' :
                /\ e._id = d._id
                /\ \A p \in Paths :
                      C10_WrittenByBoth(r, d, p) =>
                          e[p] = cast(p, response'.body[p])

C10_LastWriteWins == [][C10_LastWriteWinsStep]_vars

\* C10 as amended: the overtaken patch answers 200 and, for each path
\* written by both patches, the stored value after it is its own value when
\* that value differs from the one its lookup read; when it equals the one
\* its lookup read the path is not written and keeps the other patch's value.
C10_ChangedPathsWinStep ==
    \A r \in BagToSet(inflight) : \A d \in tasks :
        C10_Overtaken(r, d) =>
            /\ response'.status = 200
            /\ \E e \in tasks' :
                /\ e._id = d._id
                /\ \A p \in Paths :
                      C10_WrittenByBoth(r, d, p) =>
                          e[p] = (IF cast(p, response'.body[p]) # r.task.doc[p]
                                  THEN cast(p, response'.body[p])
                                  ELSE d[p])

C10_ChangedPathsWin == [][C10_ChangedPathsWinStep]_vars

\* A patch answered 200 with the title it sent while the stored title is
\* the one the patch that saved before it wrote.
C10_Witness ==
    /\ response.op = "patch"
    /\ response.status = 200
    /\ response.body.title = Str("a")
    /\ \E d \in response.data : d.title = Str("a")
    /\ \E d \in tasks :
          d._id = castObjectId(response.id) /\ d.title = Str("b")

\* C11: once a delete request answered 200 for an id, no persisted Task has
\* that id again: a patch that looked the Task up before the delete and
\* saves after it is not answered 200 and stores nothing, and every fetch
\* of the id answers 404.
C11_OfDeleted(op) ==
    /\ response.op = op
    /\ canCastObjectId(response.id)
    /\ castObjectId(response.id) \in deleted

C11_DeletedStaysGone ==
    /\ \A id \in deleted : ~\E d \in tasks : d._id = id
    /\ C11_OfDeleted("fetch") => response.status = 404
    /\ C11_OfDeleted("patch") => response.status \in {400, 404, 500}

\* A patch with a valid body and no injected fault that found the Task at
\* its lookup answered 500 at its save, the Task having been deleted in
\* between; the store does not hold the Task.
C11_Witness ==
    /\ C11_OfDeleted("patch")
    /\ patchRules(response.body) = <<>>
    /\ response.body.title = Str("b")
    /\ response.faults = {}
    /\ response.status = 500
    /\ response.message = MsgUpdateError
    /\ ~\E d \in tasks : d._id = castObjectId(response.id)

============================================================================
